---- MODULE Spec2Model ----
(***************************************************************************)
(* A model of bot.py: the proxy rotation and the downloader, the scene     *)
(* analyzer (segment selector), the clip editor and the request handler    *)
(* process_youtube_link.                                                   *)
(*                                                                         *)
(* Times.  analyze_scenes computes with Python floats; the model computes  *)
(* the same expressions in exact rational arithmetic.  A call with         *)
(* num_clips = n yields only multiples of 1/(20*(n+1)) second (duration is *)
(* a whole number of seconds, 0.1 and 0.9 are tenths, the gap divides by   *)
(* n+1 and half a segment is 22.5), so every time of that call is held as  *)
(* a whole number of ticks, Ticks(n) ticks to the second.                  *)
(***************************************************************************)
EXTENDS Integers, Sequences, FiniteSets, TLC

\* ---------------------------------------------------------------- bounds
MaxDuration == 620
MaxClips == 4

\* ------------------------------------------------------ program constants
ShortLimit == 60
ShortCap == 50
segment_length == 45
NumClips == 3

Min(a, b) == IF a <= b THEN a ELSE b
Max(a, b) == IF a >= b THEN a ELSE b

\* ticks per second of a call with num_clips = n
Ticks(n) == 20 * (n + 1)

\* duration * 0.1 and duration * 0.9, in ticks of a call with n clips
safe_start(duration, n) == (duration * Ticks(n)) \div 10
safe_end(duration, n) == (duration * 9 * Ticks(n)) \div 10
usable_duration(duration, n) == safe_end(duration, n) - safe_start(duration, n)
\* usable_duration / (num_clips + 1)
gap(duration, n) == usable_duration(duration, n) \div (n + 1)

SpacedWindowUnclamped(duration, n, i) ==
    LET start == safe_start(duration, n) + gap(duration, n) * (i + 1)
    IN  <<start, start + segment_length * Ticks(n)>>

SpacedWindowReversed(duration, n, i) ==
    LET start == safe_start(duration, n) + gap(duration, n) * (n - i)
        end == Min(start + segment_length * Ticks(n), safe_end(duration, n))
    IN  <<start, end>>

\* the i-th window (i = 0 .. n-1, as range(num_clips)) of the first branch
SpacedWindow(duration, n, i) ==
    LET start == safe_start(duration, n) + gap(duration, n) * (i + 1)
        end == Min(start + segment_length * Ticks(n), safe_end(duration, n))
    IN  <<start, end>>

CenteredWindowOnAnchor(duration, n, i) ==
    LET start == Max(safe_start(duration, n),
                     safe_start(duration, n) + gap(duration, n) * (i + 1))
        end == Min(start + segment_length * Ticks(n), safe_end(duration, n))
    IN  <<start, end>>

\* the i-th window of the second branch
CenteredWindow(duration, n, i) ==
    LET start0 == safe_start(duration, n) + gap(duration, n) * (i + 1)
                  - (segment_length * Ticks(n)) \div 2
        start == Max(safe_start(duration, n), start0)
        end == Min(start + segment_length * Ticks(n), safe_end(duration, n))
    IN  <<start, end>>

ShortWindowUncapped(duration, n) == <<0, duration * Ticks(n)>>

\* the single window of a source shorter than ShortLimit: (0, min(duration, 50))
ShortWindow(duration, n) == <<0, Min(duration, ShortCap) * Ticks(n)>>

analyze_scenes_extra(duration, n) ==
    IF duration < ShortLimit
    THEN <<ShortWindow(duration, n)>>
    ELSE IF usable_duration(duration, n) < segment_length * Ticks(n) * n
         THEN [k \in 1..(n + 1) |-> SpacedWindow(duration, n, k - 1)]
         ELSE [k \in 1..(n + 1) |-> CenteredWindow(duration, n, k - 1)]

\* analyze_scenes(video_path, duration, num_clips): the windows, in ticks
analyze_scenes(duration, n) ==
    IF duration < ShortLimit
    THEN <<ShortWindow(duration, n)>>
    ELSE IF usable_duration(duration, n) < segment_length * Ticks(n) * n
         THEN [k \in 1..n |-> SpacedWindow(duration, n, k - 1)]
         ELSE [k \in 1..n |-> CenteredWindow(duration, n, k - 1)]

\* ---------------------------------------------------------------- state
VARIABLES
    proxies,        \* ProxyManager.proxies: the pool, each endpoint named by its position
    current_index,  \* ProxyManager.current_index
    now,            \* the clock, int(time.time())
    files,          \* the files of temp/ and output/
    served,         \* handler invocations so far
    fetchLog,       \* per download_video call, the endpoint of its first attempt
    lastFetch,      \* the attempts of the latest download_video call, <<proxy, ok>> each
    req,            \* per handler slot, the locals of process_youtube_link
    selDuration, selClips, selDone, selResult,  \* the selector applied to one input
    assSegments, assDone, assCues   \* the caption builder applied to one input

vars == <<proxies, current_index, now, files, served, fetchLog, lastFetch, req,
          selDuration, selClips, selDone, selResult, assSegments, assDone, assCues>>
orchVars == <<proxies, current_index, now, files, served, fetchLog, lastFetch, req>>
selVars == <<selDuration, selClips, selDone, selResult>>
assVars == <<assSegments, assDone, assCues>>
pureVars == <<selVars, assVars>>

\* ---------------------------------------------------------------- bounds
MaxPool == 1
MaxRequests == 1
MaxClock == 0
MaxFetchPool == 3
MaxCalls == 6

\* durations the fetched metadata may report (info.get('duration', 0))
Durations == {0, 45, 600}

Slots == {1, 2}

\* None, as a proxy
NoProxy == -1

\* ------------------------------------------------------------- file names
NoPath == <<"none", 0, 0>>
VideoPath(id) == <<"video", id, 0>>      \* temp/video_{video_id}.mp4
ShortPath(id, k) == <<"short", id, k>>   \* output/short_{video_id}_{k}.mp4
AudioPath(k) == <<"audio", 0, k>>        \* temp/audio_{clip_num}.mp3
AssPath(k) == <<"ass", 0, k>>            \* temp/subtitles_{clip_num}.ass
TempPath(k) == <<"temp", 0, k>>          \* temp/temp_{clip_num}.mp4

\* ---------------------------------------------------------- ProxyManager
\* what get_next returns, and the cursor it leaves
get_next_proxy_first(pool, index) ==
    IF pool = <<>> THEN NoProxy ELSE pool[1]

get_next_proxy(pool, index) ==
    IF pool = <<>> THEN NoProxy ELSE pool[index + 1]

get_next_index_wide(pool, index) ==
    IF pool = <<>> THEN index ELSE (index + 1) % (Len(pool) + 1)

get_next_index(pool, index) ==
    IF pool = <<>> THEN index ELSE (index + 1) % Len(pool)

\* -------------------------------------------------------- download_video
download_attempts_again(proxy, firstOk, retryOk) ==
    IF firstOk THEN << <<proxy, TRUE>> >>
    ELSE IF proxy # NoProxy THEN << <<proxy, FALSE>>, <<proxy, retryOk>> >>
    ELSE << <<proxy, FALSE>> >>

\* The attempts of one call: the first through get_next's endpoint (direct when
\* it is None); after a failure one more, direct, only if there was an endpoint.
download_attempts(proxy, firstOk, retryOk) ==
    IF firstOk THEN << <<proxy, TRUE>> >>
    ELSE IF proxy # NoProxy THEN << <<proxy, FALSE>>, <<NoProxy, retryOk>> >>
    ELSE << <<proxy, FALSE>> >>

\* whether the call returns a path (rather than None, None, None)
download_ok(attempts) == attempts[Len(attempts)][2]

\* ---------------------------------------------- create_short_with_subtitles
\* What can happen inside one call: the step that raises ("none": no step), whether
\* the transcription returned segments, whether the failing write left a file.
CreateOutcomes ==
    {[fail |-> "load", segs |-> FALSE, partial |-> FALSE]}
    \cup {[fail |-> "audio", segs |-> FALSE, partial |-> p] : p \in BOOLEAN}
    \cup {[fail |-> f, segs |-> TRUE, partial |-> p] :
              f \in {"ass", "tempvideo", "burn"}, p \in BOOLEAN}
    \cup {[fail |-> "plain", segs |-> FALSE, partial |-> p] : p \in BOOLEAN}
    \cup {[fail |-> "none", segs |-> b, partial |-> FALSE] : b \in BOOLEAN}

\* the files after the call
create_files(fs, output_path, clip_num, o) ==
    LET audio == AudioPath(clip_num)
        ass == AssPath(clip_num)
        temp == TempPath(clip_num)
        left(f) == IF o.partial THEN {f} ELSE {}
    IN  CASE o.fail = "load" -> fs
          [] o.fail = "audio" -> fs \cup left(audio)
          [] o.fail = "ass" -> fs \cup {audio} \cup left(ass)
          [] o.fail = "tempvideo" -> fs \cup {audio, ass} \cup left(temp)
          [] o.fail = "burn" -> fs \cup {audio, ass, temp} \cup left(output_path)
          [] o.fail = "plain" -> fs \cup {audio} \cup left(output_path)
          [] o.fail = "none" /\ o.segs ->
                 (fs \cup {audio, ass, temp, output_path}) \ {temp, audio, ass}
          [] OTHER -> fs \cup {audio, output_path}

\* what the call returns: output_path, or None when any step raised
create_result_needs_captions(output_path, o) ==
    IF o.fail = "none" /\ o.segs THEN output_path ELSE NoPath

create_result(output_path, o) ==
    IF o.fail = "none" THEN output_path ELSE NoPath

\* ------------------------------------------------- process_youtube_link
Finished == {"returned", "raised"}

IdleReq ==
    [pc |-> "idle", status |-> "none", video_id |-> 0, downloaded_path |-> NoPath,
     duration |-> 0, segments |-> <<>>, i |-> 0, shorts |-> <<>>, j |-> 0,
     \* what the handler has done, for the properties: whether download_video
     \* returned a path, whether analyze_scenes ran, the clip numbers handed to
     \* create_short_with_subtitles and whether each returned a path, the shorts
     \* reply_video delivered, whether a call of the try block raised; per clip
     \* handed over, whether transcribe_audio returned no segments and no step of
     \* the creation raised
     fetch |-> "none", selected |-> FALSE, attempted |-> <<>>, succeeded |-> <<>>,
     delivered |-> <<>>, exc |-> FALSE, nocaptions |-> <<>>]

\* an exception inside the try block: control goes to the except clause, which
\* awaits the edit of the status message to the error text
Raise(r) == [r EXCEPT !.pc = "edit_error", !.exc = TRUE]

\* lines 325-329: after download_video: without a path the failure is reported
\* and the handler returns; with one the handler goes on
AfterDownloadNoAbort(r, got, path, d) ==
    IF got THEN [r EXCEPT !.pc = "edit_downloaded", !.fetch = "ok",
                          !.downloaded_path = path, !.duration = d]
    ELSE [r EXCEPT !.pc = "edit_downloaded", !.fetch = "failed"]

AfterDownload(r, got, path, d) ==
    IF got THEN [r EXCEPT !.pc = "edit_downloaded", !.fetch = "ok",
                          !.downloaded_path = path, !.duration = d]
    ELSE [r EXCEPT !.pc = "edit_dlfail", !.fetch = "failed"]

\* lines 363-364: the fetched source is removed if it exists
remove_source(r, fs) == fs \ {r.downloaded_path}

\* lines 366-374: after the creation loop, the next await
AfterCreateLoopNoCheck(r) == [r EXCEPT !.pc = "edit_uploading"]

AfterCreateLoop(r) ==
    IF r.shorts = <<>> THEN [r EXCEPT !.pc = "edit_createfail"]
    ELSE [r EXCEPT !.pc = "edit_uploading"]

\* lines 346-360: one turn of the creation loop, create_short_with_subtitles having
\* returned result for window i: the short is kept if there is one, and the loop
\* goes to the next window, or ends after the last
CreateStepBreak(r, result) ==
    LET clip_num == r.i + 1
        r1 == [r EXCEPT !.attempted = Append(@, clip_num),
                        !.succeeded = Append(@, result # NoPath),
                        !.shorts = IF result # NoPath THEN Append(@, result) ELSE @]
    IN  IF result = NoPath THEN AfterCreateLoop(r1)
        ELSE IF clip_num < Len(r.segments) THEN [r1 EXCEPT !.i = clip_num]
        ELSE AfterCreateLoop(r1)

CreateStepPrepend(r, result) ==
    LET clip_num == r.i + 1
        r1 == [r EXCEPT !.attempted = Append(@, clip_num),
                        !.succeeded = Append(@, result # NoPath),
                        !.shorts = IF result # NoPath THEN <<result>> \o @ ELSE @]
    IN  IF clip_num < Len(r.segments) THEN [r1 EXCEPT !.i = clip_num]
        ELSE AfterCreateLoop(r1)

CreateStep(r, result) ==
    LET clip_num == r.i + 1
        r1 == [r EXCEPT !.attempted = Append(@, clip_num),
                        !.succeeded = Append(@, result # NoPath),
                        !.shorts = IF result # NoPath THEN Append(@, result) ELSE @]
    IN  IF clip_num < Len(r.segments) THEN [r1 EXCEPT !.i = clip_num]
        ELSE AfterCreateLoop(r1)

\* lines 377-381: the delivery loop reaches short number k (from 1): past the
\* end it goes on to the final edit; else it opens the file and awaits reply_video
StartSend(r, fs, k) ==
    IF k > Len(r.shorts) THEN [r EXCEPT !.pc = "edit_done", !.j = k]
    ELSE IF r.shorts[k] \in fs THEN [r EXCEPT !.pc = "reply_video", !.j = k]
    ELSE Raise([r EXCEPT !.j = k])

Init ==
    /\ \E n \in 0..MaxPool : proxies = [k \in 1..n |-> k - 1]
    /\ current_index = 0
    /\ now = 0
    /\ files = {}
    /\ served = 0
    /\ fetchLog = <<>>
    /\ lastFetch = <<>>
    /\ req = [s \in Slots |-> IdleReq]
    /\ selDuration = 0
    /\ selClips = 0
    /\ selDone = FALSE
    /\ selResult = <<>>
    /\ assSegments = <<>>
    /\ assDone = FALSE
    /\ assCues = <<>>

\* The handler is entered (lines 304-316) and runs to its first await.
Begin(s) ==
    /\ served < MaxRequests
    /\ req[s].pc \in Finished \cup {"idle"}
    /\ \E valid \in BOOLEAN :
         req' = [req EXCEPT ![s] =
                   [IdleReq EXCEPT !.pc = IF valid THEN "reply_status"
                                          ELSE "reply_invalid"]]
    /\ served' = served + 1
    /\ UNCHANGED <<pureVars, proxies, current_index, now, files, fetchLog, lastFetch>>

\* line 308-309: the reply to a text that is no YouTube link, then return
ReplyInvalid(s) ==
    /\ req[s].pc = "reply_invalid"
    /\ \E ok \in BOOLEAN :
         req' = [req EXCEPT ![s].pc = IF ok THEN "returned" ELSE "raised"]
    /\ UNCHANGED <<pureVars, proxies, current_index, now, files, served, fetchLog, lastFetch>>

\* lines 312-327: the status message is sent (outside the try block), then the
\* clock is read and download_video runs, which has no await of its own
ReplyStatus(s) ==
    /\ req[s].pc = "reply_status"
    /\ \E ok \in BOOLEAN :
         IF ~ok
         THEN /\ req' = [req EXCEPT ![s].pc = "raised"]
              /\ UNCHANGED <<current_index, now, files, fetchLog, lastFetch>>
         ELSE \E t \in now..MaxClock, firstOk \in BOOLEAN, retryOk \in BOOLEAN,
                 d \in Durations :
                LET proxy == get_next_proxy(proxies, current_index)
                    attempts == download_attempts(proxy, firstOk, retryOk)
                    got == download_ok(attempts)
                    r == [req[s] EXCEPT !.status = "processing", !.video_id = t]
                IN  /\ now' = t
                    /\ current_index' = get_next_index(proxies, current_index)
                    /\ fetchLog' = Append(fetchLog, proxy)
                    /\ lastFetch' = attempts
                    /\ files' = IF got THEN files \cup {VideoPath(t)} ELSE files
                    /\ req' = [req EXCEPT ![s] = AfterDownload(r, got, VideoPath(t), d)]
    /\ UNCHANGED <<pureVars, proxies, served>>

\* lines 326-327: the download failed
EditDlFail(s) ==
    /\ req[s].pc = "edit_dlfail"
    /\ \E ok \in BOOLEAN :
         LET r == req[s]
         IN  req' = [req EXCEPT ![s] =
                       IF ok THEN [r EXCEPT !.status = "download_failed",
                                            !.pc = "returned"]
                       ELSE Raise(r)]
    /\ UNCHANGED <<pureVars, proxies, current_index, now, files, served, fetchLog, lastFetch>>

\* lines 329-342: "Downloaded", then the selector, with num_clips = 3
EditDownloaded(s) ==
    /\ req[s].pc = "edit_downloaded"
    /\ \E ok \in BOOLEAN :
         LET r == req[s]
         IN  req' = [req EXCEPT ![s] =
                       IF ok THEN [r EXCEPT !.status = "downloaded",
                                            !.segments = analyze_scenes(r.duration, NumClips),
                                            !.selected = TRUE,
                                            !.pc = "edit_found"]
                       ELSE Raise(r)]
    /\ UNCHANGED <<pureVars, proxies, current_index, now, files, served, fetchLog, lastFetch>>

\* lines 338-351: "Found 3 best moments", then the creation loop begins
EditFound(s) ==
    /\ req[s].pc = "edit_found"
    /\ \E ok \in BOOLEAN :
         LET r == req[s]
             r1 == [r EXCEPT !.status = "found", !.shorts = <<>>, !.i = 0]
         IN  IF ~ok
             THEN /\ req' = [req EXCEPT ![s] = Raise(r)]
                  /\ files' = files
             ELSE IF r.segments = <<>>
             THEN /\ req' = [req EXCEPT ![s] = AfterCreateLoop(r1)]
                  /\ files' = remove_source(r1, files)
             ELSE /\ req' = [req EXCEPT ![s] = [r1 EXCEPT !.pc = "edit_creating"]]
                  /\ files' = files
    /\ UNCHANGED <<pureVars, proxies, current_index, now, served, fetchLog, lastFetch>>

\* lines 347-374: "Creating short i+1", create_short_with_subtitles on window i
\* (no await inside it), then the next window or the end of the loop
EditCreating(s) ==
    /\ req[s].pc = "edit_creating"
    /\ \E ok \in BOOLEAN, o \in CreateOutcomes :
         LET r == req[s]
             clip_num == r.i + 1
             output_path == ShortPath(r.video_id, clip_num)
             result == create_result(output_path, o)
             fs1 == create_files(files, output_path, clip_num, o)
             plain == o.fail = "none" /\ ~o.segs
             r1 == CreateStep([r EXCEPT !.status = "creating",
                                        !.nocaptions = Append(@, plain)], result)
         IN  IF ~ok
             THEN /\ req' = [req EXCEPT ![s] = Raise(r)]
                  /\ files' = files
             ELSE /\ req' = [req EXCEPT ![s] = r1]
                  /\ files' = IF r1.pc = "edit_creating" THEN fs1
                              ELSE remove_source(r1, fs1)
    /\ UNCHANGED <<pureVars, proxies, current_index, now, served, fetchLog, lastFetch>>

\* lines 367-368: no short was created
EditCreateFail(s) ==
    /\ req[s].pc = "edit_createfail"
    /\ \E ok \in BOOLEAN :
         LET r == req[s]
         IN  req' = [req EXCEPT ![s] =
                       IF ok THEN [r EXCEPT !.status = "create_failed",
                                            !.pc = "returned"]
                       ELSE Raise(r)]
    /\ UNCHANGED <<pureVars, proxies, current_index, now, files, served, fetchLog, lastFetch>>

\* lines 370-381: "Uploading", then the delivery loop begins
EditUploading(s) ==
    /\ req[s].pc = "edit_uploading"
    /\ \E ok \in BOOLEAN :
         LET r == req[s]
         IN  req' = [req EXCEPT ![s] =
                       IF ok THEN StartSend([r EXCEPT !.status = "uploading"], files, 1)
                       ELSE Raise(r)]
    /\ UNCHANGED <<pureVars, proxies, current_index, now, files, served, fetchLog, lastFetch>>

\* lines 381-392: reply_video returns, the short is removed (os.remove raises when
\* it is not there), then the sleep
ReplyVideo(s) ==
    /\ req[s].pc = "reply_video"
    /\ \E ok \in BOOLEAN :
         LET r == req[s]
             short_path == r.shorts[r.j]
             r1 == [r EXCEPT !.delivered = Append(@, short_path)]
         IN  IF ~ok
             THEN /\ req' = [req EXCEPT ![s] = Raise(r)]
                  /\ files' = files
             ELSE IF short_path \notin files
             THEN /\ req' = [req EXCEPT ![s] = Raise(r1)]
                  /\ files' = files
             ELSE /\ req' = [req EXCEPT ![s] = [r1 EXCEPT !.pc = "sleep"]]
                  /\ files' = files \ {short_path}
    /\ UNCHANGED <<pureVars, proxies, current_index, now, served, fetchLog, lastFetch>>

\* line 392, then lines 377-381 for the next short or line 394
Sleep(s) ==
    /\ req[s].pc = "sleep"
    /\ req' = [req EXCEPT ![s] = StartSend(req[s], files, req[s].j + 1)]
    /\ UNCHANGED <<pureVars, proxies, current_index, now, files, served, fetchLog, lastFetch>>

\* lines 394-399: "Done"
EditDone(s) ==
    /\ req[s].pc = "edit_done"
    /\ \E ok \in BOOLEAN :
         LET r == req[s]
         IN  req' = [req EXCEPT ![s] =
                       IF ok THEN [r EXCEPT !.status = "done", !.pc = "returned"]
                       ELSE Raise(r)]
    /\ UNCHANGED <<pureVars, proxies, current_index, now, files, served, fetchLog, lastFetch>>

\* lines 401-406: the except clause; an exception of its own edit leaves the handler
EditError(s) ==
    /\ req[s].pc = "edit_error"
    /\ \E ok \in BOOLEAN :
         LET r == req[s]
         IN  req' = [req EXCEPT ![s] =
                       IF ok THEN [r EXCEPT !.status = "error", !.pc = "returned"]
                       ELSE [r EXCEPT !.pc = "raised"]]
    /\ UNCHANGED <<pureVars, proxies, current_index, now, files, served, fetchLog, lastFetch>>

\* Updates are handled one at a time (the Application of main() is built without
\* concurrent updates): one handler runs, in slot 1, and the next begins after it.
Next ==
    \/ Begin(1)
    \/ ReplyInvalid(1)
    \/ ReplyStatus(1)
    \/ EditDlFail(1)
    \/ EditDownloaded(1)
    \/ EditFound(1)
    \/ EditCreating(1)
    \/ EditCreateFail(1)
    \/ EditUploading(1)
    \/ ReplyVideo(1)
    \/ Sleep(1)
    \/ EditDone(1)
    \/ EditError(1)

Spec == Init /\ [][Next]_vars

\* ------------------------------------------------------------ the selector
\* analyze_scenes applied to one input drawn from the bounded input space.
InitSel ==
    /\ \E n \in 0..MaxPool : proxies = [k \in 1..n |-> k - 1]
    /\ current_index = 0
    /\ now = 0
    /\ files = {}
    /\ served = 0
    /\ fetchLog = <<>>
    /\ lastFetch = <<>>
    /\ req = [s \in Slots |-> IdleReq]
    /\ selDuration \in 0..MaxDuration
    /\ selClips \in 0..MaxClips
    /\ selDone = FALSE
    /\ selResult = <<>>
    /\ assSegments = <<>>
    /\ assDone = FALSE
    /\ assCues = <<>>

SelCall ==
    /\ ~selDone
    /\ selResult' = analyze_scenes(selDuration, selClips)
    /\ selDone' = TRUE
    /\ UNCHANGED <<selDuration, selClips>>
    /\ UNCHANGED <<orchVars, assVars>>

NextSel == SelCall

SpecSel == InitSel /\ [][NextSel]_vars

\* --------------------------------------------------------- the downloader
\* download_video called again and again in one process, each call to its end.
InitFetch ==
    /\ \E n \in 0..MaxFetchPool : proxies = [k \in 1..n |-> k - 1]
    /\ current_index = 0
    /\ now = 0
    /\ files = {}
    /\ served = 0
    /\ fetchLog = <<>>
    /\ lastFetch = <<>>
    /\ req = [s \in Slots |-> IdleReq]
    /\ selDuration = 0
    /\ selClips = 0
    /\ selDone = FALSE
    /\ selResult = <<>>
    /\ assSegments = <<>>
    /\ assDone = FALSE
    /\ assCues = <<>>

FetchCall ==
    /\ Len(fetchLog) < MaxCalls
    /\ \E firstOk \in BOOLEAN, retryOk \in BOOLEAN :
         LET proxy == get_next_proxy(proxies, current_index)
             attempts == download_attempts(proxy, firstOk, retryOk)
         IN  /\ current_index' = get_next_index(proxies, current_index)
             /\ fetchLog' = Append(fetchLog, proxy)
             /\ lastFetch' = attempts
             /\ files' = IF download_ok(attempts)
                         THEN files \cup {VideoPath(Len(fetchLog))} ELSE files
    /\ UNCHANGED <<pureVars, proxies, now, served, req>>

NextFetch == FetchCall

SpecFetch == InitFetch /\ [][NextFetch]_vars

\* ------------------------------------------------- concurrent requests
\* Two updates dispatched concurrently: one handler per slot, each entered once,
\* interleaved at their awaits. The sources are short ones (one window each).
MaxConcPool == 2

ConcDurations == {0, 45}

InitConc ==
    /\ \E n \in 0..MaxConcPool : proxies = [k \in 1..n |-> k - 1]
    /\ current_index = 0
    /\ now = 0
    /\ files = {}
    /\ served = 0
    /\ fetchLog = <<>>
    /\ lastFetch = <<>>
    /\ req = [s \in Slots |-> IdleReq]
    /\ selDuration = 0
    /\ selClips = 0
    /\ selDone = FALSE
    /\ selResult = <<>>
    /\ assSegments = <<>>
    /\ assDone = FALSE
    /\ assCues = <<>>

\* The handler is entered (lines 304-316) in a slot not used before.
BeginConcurrent(s) ==
    /\ req[s].pc = "idle"
    /\ \E valid \in BOOLEAN :
         req' = [req EXCEPT ![s] =
                   [IdleReq EXCEPT !.pc = IF valid THEN "reply_status"
                                          ELSE "reply_invalid"]]
    /\ served' = served + 1
    /\ UNCHANGED <<pureVars, proxies, current_index, now, files, fetchLog, lastFetch>>

ReplyStatusShort(s) == ReplyStatus(s) /\ req'[s].duration \in ConcDurations

NextConc ==
    \E s \in Slots :
        \/ BeginConcurrent(s)
        \/ ReplyInvalid(s)
        \/ ReplyStatusShort(s)
        \/ EditDlFail(s)
        \/ EditDownloaded(s)
        \/ EditFound(s)
        \/ EditCreating(s)
        \/ EditCreateFail(s)
        \/ EditUploading(s)
        \/ ReplyVideo(s)
        \/ Sleep(s)
        \/ EditDone(s)
        \/ EditError(s)

SpecConc == InitConc /\ [][NextConc]_vars

\* ------------------------------------------------------ the caption builder
\* generate_ass_subtitles applied to one list of segments drawn from the bounded
\* input space. Times are in milliseconds; a text is a sequence of characters.
MaxWords == 8
MaxSegs == 2

\* seg.get('end', ...) of a segment without the key
NoEnd == -1

\* line 166: start + 2, in milliseconds
DefaultSpan == 2000

\* line 176: len(words) > 6
WrapLimit == 6

\* line 180: the literal \N of the subtitle format
LineBreak == "\\N"

\* format_ass_time: hours, minutes, seconds and centiseconds of the time stamp
format_ass_time(ms) ==
    <<ms \div 3600000, (ms % 3600000) \div 60000, (ms % 60000) \div 1000,
      ((ms % 1000) * 100) \div 1000>>

\* str.upper, on the letters of the texts
upper_char(c) ==
    CASE c = "a" -> "A"
      [] c = "b" -> "B"
      [] OTHER -> c

upper(t) == [k \in 1..Len(t) |-> upper_char(t[k])]

\* str.strip: the white space at both ends goes
RECURSIVE lstrip(_)
lstrip(t) == IF t # <<>> /\ Head(t) = " " THEN lstrip(Tail(t)) ELSE t

RECURSIVE rstrip(_)
rstrip(t) ==
    IF t # <<>> /\ t[Len(t)] = " " THEN rstrip(SubSeq(t, 1, Len(t) - 1)) ELSE t

strip(t) == rstrip(lstrip(t))

\* str.split(): the words between runs of white space; cur is the word being
\* read from position k on, out the words before it
RECURSIVE split_from(_, _, _, _)
split_from(t, k, cur, out) ==
    LET closed == IF cur = <<>> THEN out ELSE Append(out, cur)
    IN  IF k > Len(t) THEN closed
        ELSE IF t[k] = " " THEN split_from(t, k + 1, <<>>, closed)
        ELSE split_from(t, k + 1, Append(cur, t[k]), out)

split(t) == split_from(t, 1, <<>>, <<>>)

\* ' '.join(words)
RECURSIVE join(_)
join(words) ==
    IF words = <<>> THEN <<>>
    ELSE IF Len(words) = 1 THEN words[1]
    ELSE words[1] \o <<" ">> \o join(Tail(words))

\* line 177: the word the second line begins with (from 0)
wrap_mid_ceil(n) == (n + 1) \div 2

wrap_mid(n) == n \div 2

\* lines 175-180: the text of the dialogue line
wrap_text(text) ==
    LET words == split(text)
        mid == wrap_mid(Len(words))
    IN  IF Len(words) > WrapLimit
        THEN join(SubSeq(words, 1, mid)) \o <<LineBreak>>
                 \o join(SubSeq(words, mid + 1, Len(words)))
        ELSE text

\* line 166
segment_end(seg) == IF seg.end = NoEnd THEN seg.start + DefaultSpan ELSE seg.end

\* line 169: if text
dialogue_wanted_always(text) == TRUE

dialogue_wanted(text) == text # <<>>

\* lines 165-183: the dialogue line of one segment, none when its text is blank
dialogues_of(seg) ==
    LET text == upper(strip(seg.text))
    IN  IF dialogue_wanted(text)
        THEN << [start |-> format_ass_time(seg.start),
                 end |-> format_ass_time(segment_end(seg)),
                 text |-> wrap_text(text)] >>
        ELSE <<>>

\* lines 163-189: the dialogue lines written to the file, in the order of the loop
RECURSIVE generate_ass_subtitles(_)
generate_ass_subtitles(segments) ==
    IF segments = <<>> THEN <<>>
    ELSE dialogues_of(Head(segments)) \o generate_ass_subtitles(Tail(segments))

\* the input space: texts of n words, bare or with white space around the words
Letters == <<"a", "b", "C">>

RECURSIVE WordsText(_, _)
WordsText(n, padded) ==
    LET w == <<Letters[((n - 1) % 3) + 1]>>
        sep == IF padded /\ n = 2 THEN <<" ", " ">> ELSE <<" ">>
    IN  IF n = 0 THEN <<>>
        ELSE IF n = 1 THEN w
        ELSE WordsText(n - 1, padded) \o sep \o w

Texts ==
    {WordsText(n, FALSE) : n \in 0..MaxWords}
    \cup {<<" ">> \o WordsText(n, TRUE) \o <<" ">> : n \in 0..MaxWords}

Timings == {<<59990, NoEnd>>, <<3725995, 3729001>>}

SegPool == {[start |-> tm[1], end |-> tm[2], text |-> t] : tm \in Timings, t \in Texts}

InitAss ==
    /\ proxies = <<>>
    /\ current_index = 0
    /\ now = 0
    /\ files = {}
    /\ served = 0
    /\ fetchLog = <<>>
    /\ lastFetch = <<>>
    /\ req = [s \in Slots |-> IdleReq]
    /\ selDuration = 0
    /\ selClips = 0
    /\ selDone = FALSE
    /\ selResult = <<>>
    /\ \E n \in 0..MaxSegs : assSegments \in [1..n -> SegPool]
    /\ assDone = FALSE
    /\ assCues = <<>>

AssCall ==
    /\ ~assDone
    /\ assCues' = generate_ass_subtitles(assSegments)
    /\ assDone' = TRUE
    /\ UNCHANGED <<orchVars, selVars, assSegments>>

NextAss == AssCall

SpecAss == InitAss /\ [][NextAss]_vars

\* ============================================================ properties
\* the windows of the selector's result, as <<start, end>> in ticks
SelWindows == {selResult[k] : k \in 1..Len(selResult)}

C2_ShortSourceOneWindow ==
    (selDone /\ selDuration < 60) =>
        selResult = << <<0, (IF selDuration <= 50 THEN selDuration ELSE 50)
                              * Ticks(selClips)>> >>

\* a short source longer than the cap, asked for three clips
C2_Witness ==
    /\ selDone /\ selDuration = 55 /\ selClips = 3
    /\ selResult = << <<0, 50 * Ticks(3)>> >>

\* C3, as claimed: duration 600 and 3 clips give safeStart 60, safeEnd 540, usable
\* 480, gap 120 and the windows [60,105], [180,225], [300,345] (SpecSel).
C3_Claim ==
    (selDone /\ selDuration = 600 /\ selClips = 3) =>
        /\ safe_start(600, 3) = 60 * Ticks(3)
        /\ safe_end(600, 3) = 540 * Ticks(3)
        /\ usable_duration(600, 3) = 480 * Ticks(3)
        /\ gap(600, 3) = 120 * Ticks(3)
        /\ selResult = << <<60 * Ticks(3), 105 * Ticks(3)>>,
                          <<180 * Ticks(3), 225 * Ticks(3)>>,
                          <<300 * Ticks(3), 345 * Ticks(3)>> >>

\* C3, amended: duration 600 and 3 clips give safeStart 60, safeEnd 540, usable 480,
\* gap 120 and the windows centred on the anchors 180, 300, 420:
\* [157.5,202.5], [277.5,322.5], [397.5,442.5] (SpecSel).
C3_CenteredExample ==
    (selDone /\ selDuration = 600 /\ selClips = 3) =>
        /\ safe_start(600, 3) = 60 * Ticks(3)
        /\ safe_end(600, 3) = 540 * Ticks(3)
        /\ usable_duration(600, 3) = 480 * Ticks(3)
        /\ gap(600, 3) = 120 * Ticks(3)
        /\ selResult = << <<(315 * Ticks(3)) \div 2, (405 * Ticks(3)) \div 2>>,
                          <<(555 * Ticks(3)) \div 2, (645 * Ticks(3)) \div 2>>,
                          <<(795 * Ticks(3)) \div 2, (885 * Ticks(3)) \div 2>> >>

\* the example's call has returned its three windows
C3_Witness ==
    /\ selDone /\ selDuration = 600 /\ selClips = 3
    /\ Len(selResult) = 3
    /\ selResult[1][2] - selResult[1][1] = 45 * Ticks(3)

\* C4, as claimed: with clipCount = 0 the selector returns the empty sequence for
\* every duration >= 0 (SpecSel).
C4_Claim ==
    (selDone /\ selClips = 0) => selResult = <<>>

\* C4, amended: with clipCount = 0 the selector returns the empty sequence for every
\* duration >= 60; for a duration below 60 it returns the single window of a short
\* source (SpecSel).
C4_ZeroClips ==
    (selDone /\ selClips = 0) =>
        IF selDuration >= 60 THEN selResult = <<>> ELSE Len(selResult) = 1

\* no clip asked of a long source: nothing returned
C4_Witness ==
    /\ selDone /\ selClips = 0 /\ selDuration = 600
    /\ selResult = <<>>

\* the clip numbers a request has handed to create_short_with_subtitles
Handed(r) == {r.attempted[k] : k \in 1..Len(r.attempted)}

\* C5, as claimed: every window analyze_scenes returns has 0 <= start < end <=
\* duration, and no zero-length window is handed to the clip creation (Spec).
C5_Claim ==
    /\ selDone =>
         \A w \in SelWindows :
            0 <= w[1] /\ w[1] < w[2] /\ w[2] <= selDuration * Ticks(selClips)
    /\ \A s \in Slots :
         \A k \in Handed(req[s]) :
            LET w == req[s].segments[k]
            IN  0 <= w[1] /\ w[1] < w[2] /\ w[2] <= req[s].duration * Ticks(NumClips)

\* C6: with n > 0 endpoints the k-th call of download_video (k = 0, 1, ...) makes
\* its first attempt through endpoint k mod n, whatever became of the earlier calls,
\* and the cursor stays in 0..n-1 (SpecFetch).
C6_RoundRobin ==
    proxies # <<>> =>
        /\ current_index \in 0..(Len(proxies) - 1)
        /\ \A k \in 1..Len(fetchLog) : fetchLog[k] = (k - 1) % Len(proxies)
        /\ lastFetch # <<>> => lastFetch[1][1] = fetchLog[Len(fetchLog)]

\* four calls on a pool of three, the fourth failing like some call before it
C6_Witness ==
    /\ Len(proxies) = 3
    /\ fetchLog = <<0, 1, 2, 0>>
    /\ current_index = 1
    /\ lastFetch = << <<0, FALSE>>, <<NoProxy, FALSE>> >>

\* C7, as claimed: a call whose first attempt fails retries exactly once, direct; no
\* call makes more than two attempts; with an empty pool every attempt is direct;
\* failure is returned only after the direct retry has failed too (SpecFetch).
C7_Claim ==
    lastFetch # <<>> =>
        /\ Len(lastFetch) <= 2
        /\ ~lastFetch[1][2] => (Len(lastFetch) = 2 /\ lastFetch[2][1] = NoProxy)
        /\ proxies = <<>> => \A k \in 1..Len(lastFetch) : lastFetch[k][1] = NoProxy
        /\ ~lastFetch[Len(lastFetch)][2] =>
               (Len(lastFetch) = 2 /\ lastFetch[2] = <<NoProxy, FALSE>>)

\* C7, amended: a call whose first attempt went through an endpoint and failed
\* retries exactly once, direct; a first attempt that was direct (the pool is empty)
\* is not retried, its failure is returned at once; no call makes more than two
\* attempts; with an empty pool every attempt is direct; failure is returned only
\* after a direct attempt has failed (SpecFetch).
C7_RetryOnceDirect ==
    lastFetch # <<>> =>
        /\ Len(lastFetch) <= 2
        /\ (lastFetch[1][1] # NoProxy /\ ~lastFetch[1][2]) =>
               (Len(lastFetch) = 2 /\ lastFetch[2][1] = NoProxy)
        /\ (lastFetch[1][1] = NoProxy \/ lastFetch[1][2]) => Len(lastFetch) = 1
        /\ proxies = <<>> => \A k \in 1..Len(lastFetch) : lastFetch[k][1] = NoProxy
        /\ ~lastFetch[Len(lastFetch)][2] =>
               /\ lastFetch[Len(lastFetch)][1] = NoProxy
               /\ proxies # <<>> => Len(lastFetch) = 2

\* an attempt through an endpoint failed and the direct retry succeeded
C7_Witness ==
    /\ Len(lastFetch) = 2
    /\ lastFetch[1][1] # NoProxy
    /\ lastFetch[2] = <<NoProxy, TRUE>>

\* the shorts of the windows whose creation succeeded, in the order of the windows
Survivors(r) ==
    LET done == SelectSeq(r.attempted, LAMBDA k : r.succeeded[k])
    IN  [m \in 1..Len(done) |-> ShortPath(r.video_id, done[m])]

IsPrefix(a, b) == Len(a) <= Len(b) /\ a = SubSeq(b, 1, Len(a))

ToSet(a) == {a[k] : k \in 1..Len(a)}

\* C8: when download_video returns no path the request is aborted: no selection, no
\* clip creation, no delivery; the handler's only further step is the edit of the
\* status message to a failure diagnostic, which it shows whenever the handler
\* returns (the message stays only if that edit and the except clause's edit both
\* raise) (Spec).
C8_FetchFailureAborts ==
    \A s \in Slots :
        LET r == req[s]
        IN  r.fetch = "failed" =>
                /\ ~r.selected /\ r.segments = <<>>
                /\ r.attempted = <<>> /\ r.shorts = <<>>
                /\ r.delivered = <<>>
                /\ r.pc \in {"edit_dlfail", "edit_error", "returned", "raised"}
                /\ r.pc = "returned" => r.status \in {"download_failed", "error"}
                /\ r.status = "error" => r.exc
                /\ r.pc = "raised" => r.exc

\* a request whose download failed has returned with the failure on display
C8_Witness ==
    \E s \in Slots :
        /\ req[s].fetch = "failed"
        /\ req[s].pc = "returned"
        /\ req[s].status = "download_failed"
        /\ lastFetch[Len(lastFetch)][2] = FALSE

Intermediates(k) == {AudioPath(k), AssPath(k), TempPath(k)}

\* C12: scoped cleanup: whenever create_short_with_subtitles has returned for a clip,
\* on every path (captioned success, uncaptioned success, failure at any step), none
\* of that clip's intermediates is left on disk, so none is when the request ends
\* (Spec).
C12_Claim ==
    \A s \in Slots :
        \A m \in 1..Len(req[s].attempted) :
            Intermediates(req[s].attempted[m]) \cap files = {}

\* C13: the fetched source is there while a window is still to be attempted, is
\* removed once all windows have been attempted, and is gone when the handler has
\* returned, whatever happened in between (Spec).
C13_Claim ==
    \A s \in Slots :
        LET r == req[s]
        IN  r.fetch = "ok" =>
                /\ r.pc = "edit_creating" => r.downloaded_path \in files
                /\ (r.selected /\ Len(r.attempted) = Len(r.segments)
                        /\ r.pc # "edit_found") => r.downloaded_path \notin files
                /\ r.pc = "returned" => r.downloaded_path \notin files

\* the clip files of request r in the output directory
ClipFiles(r) == {f \in files : f[1] = "short" /\ f[2] = r.video_id}

\* C14: a clip file is in the output directory only after its creation succeeded, and
\* when the handler has returned no clip file of the request is left there,
\* delivered or not (Spec).
C14_Claim ==
    \A s \in Slots :
        LET r == req[s]
        IN  r.fetch = "ok" =>
                /\ ClipFiles(r) \subseteq ToSet(r.shorts)
                /\ r.pc = "returned" => ClipFiles(r) = {}

\* C15: within one request the clips are created in the order of their windows and
\* delivered in that order, also when clips in between failed: the clip numbers
\* handed to the creation ascend, the kept shorts ascend, the delivered shorts are
\* the first of the kept ones; and one clip is in work at a time: while a clip is
\* being created none has been delivered, and the short in delivery is the one
\* after those delivered (Spec).
C15_OrderKept ==
    \A s \in Slots :
        LET r == req[s]
        IN  /\ \A m, n \in 1..Len(r.attempted) :
                   m < n => r.attempted[m] < r.attempted[n]
            /\ \A m, n \in 1..Len(r.shorts) :
                   m < n => r.shorts[m][3] < r.shorts[n][3]
            /\ \A m \in 1..Len(r.shorts) :
                   r.shorts[m] = ShortPath(r.video_id, r.shorts[m][3])
            /\ IsPrefix(r.delivered, r.shorts)
            /\ r.pc = "edit_creating" =>
                   (r.delivered = <<>> /\ Len(r.attempted) = r.i)
            /\ r.pc = "reply_video" =>
                   (r.j \in 1..Len(r.shorts) /\ Len(r.delivered) = r.j - 1
                        /\ Len(r.attempted) = Len(r.segments))

\* the first clip has been delivered and the third is in delivery; the second failed
C15_Witness ==
    \E s \in Slots :
        /\ req[s].pc = "reply_video" /\ req[s].j = 2
        /\ req[s].succeeded = <<TRUE, FALSE, TRUE>>
        /\ req[s].delivered = <<ShortPath(req[s].video_id, 1)>>
        /\ req[s].shorts[2] = ShortPath(req[s].video_id, 3)

\* the segments with a character that is no white space, in their order
NonBlank(seg) == \E k \in 1..Len(seg.text) : seg.text[k] # " "

Spoken == SelectSeq(assSegments, NonBlank)

\* the words of a text: the maximal runs without white space or line break
IsGap(c) == c = " " \/ c = LineBreak

WordStarts(t) == {k \in 1..Len(t) : ~IsGap(t[k]) /\ (k = 1 \/ IsGap(t[k - 1]))}

WordEnd(t, k) ==
    CHOOSE e \in k..Len(t) :
        /\ \A j \in k..e : ~IsGap(t[j])
        /\ e = Len(t) \/ IsGap(t[e + 1])

NumWords(t) == Cardinality(WordStarts(t))

\* the words with their ranks, in upper case
RankedWords(t) ==
    LET starts == WordStarts(t)
    IN  {<<Cardinality({j \in starts : j <= k}), upper(SubSeq(t, k, WordEnd(t, k)))>> :
             k \in starts}

\* a time stamp's value in centiseconds, and its fields being in their ranges
TimeValue(ts) == ((ts[1] * 60 + ts[2]) * 60 + ts[3]) * 100 + ts[4]

TimeFields(ts) ==
    ts[1] >= 0 /\ ts[2] \in 0..59 /\ ts[3] \in 0..59 /\ ts[4] \in 0..99

\* C16: generate_ass_subtitles emits one cue for every segment whose text is not
\* blank after trimming and none for a blank one; the cues are in the order of the
\* segments, unmerged; each cue's text is not empty, has no lower-case letter and has
\* the segment's words; each cue has its segment's start and end, the end being
\* start + 2 s for a segment without one (times to the centisecond of the format)
\* (SpecAss).
C16_OneCuePerSpokenSegment ==
    assDone =>
        /\ Len(assCues) = Len(Spoken)
        /\ \A m \in 1..Len(assCues) :
               LET c == assCues[m]
                   g == Spoken[m]
                   end == IF g.end = NoEnd THEN g.start + 2000 ELSE g.end
               IN  /\ c.text # <<>>
                   /\ \A k \in 1..Len(c.text) : c.text[k] \notin {"a", "b", "c"}
                   /\ RankedWords(c.text) = RankedWords(g.text)
                   /\ TimeFields(c.start) /\ TimeFields(c.end)
                   /\ TimeValue(c.start) = g.start \div 10
                   /\ TimeValue(c.end) = end \div 10

\* a blank segment and one without an end: one cue, which ends 2 s after its start
C16_Witness ==
    /\ assDone
    /\ Len(assSegments) = 2
    /\ ~NonBlank(assSegments[1]) /\ assSegments[1].text # <<>>
    /\ assSegments[2].end = NoEnd /\ NonBlank(assSegments[2])
    /\ assSegments[2].text[1] = " "
    /\ Len(assCues) = 1
    /\ TimeValue(assCues[1].end) = TimeValue(assCues[1].start) + 200

\* the positions of the line-break token in a cue's text
Breaks(t) == {k \in 1..Len(t) : t[k] = LineBreak}

\* C17: a text of n words gets exactly one line-break token, between the words,
\* with floor(n/2) words before it, when n > 6, and none when n <= 6; the words and
\* their order are unchanged (SpecAss).
C17_WrapAtMiddle ==
    (assDone /\ Len(assCues) = Len(Spoken)) =>
        \A m \in 1..Len(assCues) :
            LET t == assCues[m].text
                n == NumWords(Spoken[m].text)
            IN  /\ Cardinality(Breaks(t)) = IF n > 6 THEN 1 ELSE 0
                /\ \A k \in Breaks(t) :
                       /\ 1 < k /\ k < Len(t)
                       /\ ~IsGap(t[k - 1]) /\ ~IsGap(t[k + 1])
                       /\ NumWords(SubSeq(t, 1, k - 1)) = n \div 2
                /\ RankedWords(t) = RankedWords(Spoken[m].text)
                /\ NumWords(t) = n

\* a text of 8 words is broken before its fifth word, one of 6 words is not broken
C17_Witness ==
    /\ assDone
    /\ Len(assCues) = 2 /\ Len(Spoken) = 2
    /\ NumWords(Spoken[1].text) = 8
    /\ \E k \in Breaks(assCues[1].text) :
           NumWords(SubSeq(assCues[1].text, 1, k - 1)) = 4
    /\ NumWords(Spoken[2].text) = 6
    /\ Breaks(assCues[2].text) = {}

\* the files on disk that request r still has to use: its fetched source until
\* its creation loop has ended, its created shorts until they are delivered
Held(r) ==
    LET source == IF r.fetch = "ok"
                     /\ r.pc \in {"edit_downloaded", "edit_found", "edit_creating"}
                  THEN {r.downloaded_path} ELSE {}
        clips == IF r.pc \in {"edit_creating", "edit_uploading", "reply_video", "sleep"}
                 THEN {r.shorts[k] : k \in (Len(r.delivered) + 1)..Len(r.shorts)}
                 ELSE {}
    IN  (source \cup clips) \cap files

\* the step from r to r1 is a download_video that wrote its file
Downloads(r, r1) == r.pc = "reply_status" /\ r1.fetch = "ok"

\* the step from r to r1 ran create_short_with_subtitles, which opens the source
Creates(r, r1) == r.pc = "edit_creating" /\ Len(r1.attempted) > Len(r.attempted)

\* C18: with two requests interleaved at their awaits, no step of one request
\* deletes, overwrites or reads a file that the other request holds (its fetched
\* source, its clips awaiting delivery), also when both start in the same clock
\* second (SpecConc).
C18_Claim ==
    [][\A s \in Slots : \A o \in Slots \ {s} :
           req'[s] # req[s] =>
               LET deleted == files \ files'
                   written == IF Downloads(req[s], req'[s])
                              THEN {req'[s].downloaded_path} ELSE {}
                   read == IF Creates(req[s], req'[s])
                           THEN {req[s].downloaded_path} ELSE {}
               IN  (deleted \cup written \cup read) \cap Held(req[o]) = {}]_vars

\* the slots whose handler has called download_video
Fetched == {s \in Slots : req[s].fetch # "none"}

\* C19: however the concurrent requests interleave, get_next reads and advances the
\* cursor in one step: there is one call per request that reached the download, the
\* m calls got the endpoints 0, 1, ..., (m-1) mod n in the order of the calls, no
\* endpoint twice within a cycle, and the cursor is the number of calls mod n, in
\* 0..n-1 (SpecConc).
C19_CursorAtomic ==
    LET n == Len(proxies)
        m == Len(fetchLog)
    IN  /\ m = Cardinality(Fetched)
        /\ n > 0 =>
               /\ current_index \in 0..(n - 1)
               /\ current_index = m % n
               /\ \A k \in 1..m : fetchLog[k] = (k - 1) % n
               /\ \A k, l \in 1..m : (k < l /\ l - k < n) => fetchLog[k] # fetchLog[l]
        /\ n = 0 => (current_index = 0 /\ \A k \in 1..m : fetchLog[k] = NoProxy)

\* both requests are under way, the second having called get_next while the first
\* was suspended after its own call: they got endpoints 0 and 1 of two
C19_Witness ==
    /\ Len(proxies) = 2
    /\ fetchLog = <<0, 1>>
    /\ current_index = 0
    /\ \A s \in Slots : req[s].fetch = "ok" /\ req[s].pc = "edit_creating"

\* C20: the windows analyze_scenes returns are in chronological order, for every
\* duration and clip count and in both branches: from one window to the next neither
\* the start nor the end goes back (SpecSel).
C20_Chronological ==
    selDone =>
        \A k \in 1..(Len(selResult) - 1) :
            /\ selResult[k][1] <= selResult[k + 1][1]
            /\ selResult[k][2] <= selResult[k + 1][2]

\* three windows of the centered branch that overlap and are in order all the same
C20_Witness ==
    /\ selDone /\ selClips = 3 /\ Len(selResult) = 3
    /\ usable_duration(selDuration, selClips) >= segment_length * Ticks(selClips) * selClips
    /\ selResult[1][1] < selResult[2][1] /\ selResult[2][1] < selResult[3][1]
    /\ selResult[2][1] < selResult[1][2]
    /\ selResult[3][1] < selResult[2][2]

====
